---- MODULE Spec2Model ----
(***************************************************************************)
(* Model of notebooks/sfincs_utils.py: run_sfincs (backend selection,      *)
(* command construction, process supervision, output draining and outcome  *)
(* classification), get_sfincs_basemodel_root (ancestor inference from the *)
(* "../" markers of file-valued config entries) and                        *)
(* create_sfincs_model_archive (manifest and zip archive).                 *)
(*                                                                         *)
(* Strings are TLA+ strings, paths are parsed from them the way pathlib    *)
(* parses them, and every substring test of the source is a real substring *)
(* test here.                                                              *)
(***************************************************************************)
EXTENDS Integers, Sequences, FiniteSets, TLC

\* ------------------------------------------------------------------ bounds
\* Largest number of leading "../" markers a config value carries.
MaxUp == 2
\* Most lines the child process writes in one run, both streams together.
MaxLines == 2
\* Lines an OS pipe holds before a write to it blocks.
PipeCap == 1

\* ----------------------------------------------------------------- strings
\* sub in s  (Python's substring test)
Contains(s, sub) ==
    \E i \in 1..(Len(s) - Len(sub) + 1) : SubSeq(s, i, i + Len(sub) - 1) = sub

\* s.count(sub) for a sub that cannot overlap itself ("../" cannot)
Count(s, sub) ==
    Cardinality({i \in 1..(Len(s) - Len(sub) + 1) :
                    SubSeq(s, i, i + Len(sub) - 1) = sub})

\* ------------------------------------------------------------------- paths
\* A pathlib path: whether it is anchored at "/", and its segments.  Parsing
\* drops empty and "." segments and keeps ".." segments, as PurePath does.
RECURSIVE SplitAt(_, _, _, _)
SplitAt(s, i, cur, acc) ==
    IF i > Len(s)
    THEN IF cur \in {"", "."} THEN acc ELSE Append(acc, cur)
    ELSE IF SubSeq(s, i, i) = "/"
         THEN SplitAt(s, i + 1, "",
                      IF cur \in {"", "."} THEN acc ELSE Append(acc, cur))
         ELSE SplitAt(s, i + 1, cur \o SubSeq(s, i, i), acc)

PathOf(s) ==
    [abs |-> Len(s) > 0 /\ SubSeq(s, 1, 1) = "/", parts |-> SplitAt(s, 1, "", <<>>)]

\* The process's working directory, against which relative paths resolve.
Cwd == PathOf("/models/event1")

\* Path(a, b): an absolute b replaces a
PathJoin(a, b) == IF b.abs THEN b ELSE [abs |-> a.abs, parts |-> a.parts \o b.parts]

\* p.parent (the parent of "/" and of "." is itself)
Parent(p) ==
    IF p.parts = <<>> THEN p
    ELSE [abs |-> p.abs, parts |-> SubSeq(p.parts, 1, Len(p.parts) - 1)]

\* p.name
Name(p) == IF p.parts = <<>> THEN "" ELSE p.parts[Len(p.parts)]

RECURSIVE Collapse(_, _)
Collapse(parts, acc) ==
    IF parts = <<>> THEN acc
    ELSE IF Head(parts) = ".."
         THEN Collapse(Tail(parts),
                       IF acc = <<>> THEN acc ELSE SubSeq(acc, 1, Len(acc) - 1))
         ELSE Collapse(Tail(parts), Append(acc, Head(parts)))

\* p.resolve(): absolute, ".." collapsed ("/.." is "/"); no symlinks here.
Resolve(p) ==
    [abs |-> TRUE,
     parts |-> Collapse(IF p.abs THEN p.parts ELSE Cwd.parts \o p.parts, <<>>)]

NoPath == [abs |-> FALSE, parts |-> <<>>]

\* p.parents[n]: purely lexical; len(p.parents) is the number of segments,
\* and an index past the end raises IndexError.
ParentAt(p, n) ==
    IF n < Len(p.parts)
    THEN [err |-> "none",
          path |-> [abs |-> p.abs, parts |-> SubSeq(p.parts, 1, Len(p.parts) - 1 - n)]]
    ELSE [err |-> "IndexError", path |-> NoPath]

IsPrefix(a, b) == Len(a) <= Len(b) /\ SubSeq(b, 1, Len(a)) = a

\* os.path.relpath: climbs out of base with ".." where f is not below it.
RECURSIVE RelPath(_, _)
RelPath(f, base) ==
    IF f.abs = base.abs /\ IsPrefix(base.parts, f.parts)
    THEN [err |-> "none",
          path |-> [abs |-> FALSE,
                    parts |-> SubSeq(f.parts, Len(base.parts) + 1, Len(f.parts))]]
    ELSE LET up == RelPath(f, Parent(base))
         IN  [err |-> "none",
              path |-> [abs |-> FALSE, parts |-> <<"..">> \o up.path.parts]]

\* f.relative_to(base): ValueError unless base is a lexical prefix of f.
RelativeTo(f, base) ==
    IF f.abs = base.abs /\ IsPrefix(base.parts, f.parts)
    THEN [err |-> "none",
          path |-> [abs |-> FALSE,
                    parts |-> SubSeq(f.parts, Len(base.parts) + 1, Len(f.parts))]]
    ELSE [err |-> "ValueError", path |-> NoPath]

HasParentMarker(p) == \E i \in 1..Len(p.parts) : p.parts[i] = ".."

\* ------------------------------------------------------------------ config
\* The keys of the modelled configs, in file order.
KeyOrder == <<"depfile", "bndfile", "outdir">>
Keys == {KeyOrder[i] : i \in 1..Len(KeyOrder)}

RECURSIVE UpStr(_)
UpStr(n) == IF n = 0 THEN "" ELSE "../" \o UpStr(n - 1)

\* Values of file-valued entries: a plain name, one to MaxUp leading markers,
\* an absolute reference, and a marker in the middle of the value.
FileVals ==
    {"topo.tif", "/data/topo.tif", "sub/../topo.tif"}
        \cup {UpStr(n) \o "static/topo.tif" : n \in 1..MaxUp}
ValsFor(k) == IF k = "outdir" THEN {"../out"} ELSE FileVals
AllVals == UNION {ValsFor(k) : k \in Keys}

Configs ==
    UNION {{c \in [S -> AllVals] : \A k \in S : c[k] \in ValsFor(k)} : S \in SUBSET Keys}

\* config.items(), in order
Items(cfg) == SelectSeq(KeyOrder, LAMBDA k : k \in DOMAIN cfg)

EmptyCfg == [k \in {} |-> ""]

VARIABLES
    \* ---- filesystem
    cfgs,       \* resolved path of each existing config file |-> its content
    exists,     \* resolved paths of the existing data files
    \* ---- get_sfincs_basemodel_root, called directly
    inp,        \* the sfincs_inp argument (a string)
    root_res,   \* what the direct call returned or raised
    \* ---- create_sfincs_model_archive
    apc,        \* position in the call
    zip_arg,    \* the zip_filename argument (a string)
    zip_path,   \* the normalised destination
    zip,        \* the file at the destination
    zip0,       \* the file at the destination when the call started
    files,      \* the list `files`
    base,       \* base_folder
    widx,       \* index of the next file the write loop handles
    warnings,   \* the values warned about
    aout        \* outcome of the call

avars == <<cfgs, exists, inp, root_res, apc, zip_arg, zip_path, zip, zip0,
           files, base, widx, warnings, aout>>

VARIABLES
    \* ---- run_sfincs: arguments and environment
    run_method, \* the run_method argument
    verbose,    \* the verbose argument
    host,       \* what the exe branch learnt: platform.system(), sfincs_exe.is_file()
    probe,      \* how the availability probe ended
    \* ---- run_sfincs: locals
    rpc,        \* position in the call
    model_root,
    base_folder,
    cmd,
    print_log,
    return_code,
    rout,       \* outcome of the call
    \* ---- the child process and its pipes
    child,      \* "none", "running", "exited"
    pending,    \* the write the child is blocked in
    out_pipe,
    err_pipe,
    exit_code,
    \* ---- files and console
    log,        \* sfincs_log.txt under model_root
    log0,       \* the same file when the call started
    console,    \* the lines printed from the drain loops
    \* ---- history
    emitted,    \* per stream, the lines the child has written
    popen,      \* the arguments Popen was called with
    trace       \* filesystem and process operations of the call, in order

rvars == <<run_method, verbose, host, probe, rpc, model_root, base_folder, cmd,
           print_log, return_code, rout, child, pending, out_pipe, err_pipe,
           exit_code, log, log0, console, emitted, popen, trace>>

vars == <<avars, rvars>>

\* SfincsInput.from_file(p).to_dict(): the mapping, or the reader's failure.
FromFile(p) ==
    IF Resolve(p) \notin DOMAIN cfgs
    THEN [err |-> "NotFound", cfg |-> EmptyCfg]
    ELSE IF ~cfgs[Resolve(p)].parsable
         THEN [err |-> "ParseError", cfg |-> EmptyCfg]
         ELSE [err |-> "none", cfg |-> cfgs[Resolve(p)].cfg]

MaxOf(S) == IF S = {} THEN 0 ELSE CHOOSE m \in S : \A x \in S : x <= m

\* The loop of get_sfincs_basemodel_root: n = max count of "../" over the
\* entries whose key contains "file" and whose value contains "../".
\* MarkerCountAnyKey is the loop without the test on the key.
MarkerCountAnyKey(cfg) ==
    MaxOf({Count(cfg[k], "../") : k \in {x \in DOMAIN cfg : Contains(cfg[x], "../")}})

MarkerCount(cfg) ==
    MaxOf({Count(cfg[k], "../") :
              k \in {x \in DOMAIN cfg : Contains(x, "file") /\ Contains(cfg[x], "../")}})

\* get_sfincs_basemodel_root(p)
BasemodelRoot(p) ==
    LET r == FromFile(p)
    IN  IF r.err # "none" THEN [err |-> r.err, path |-> NoPath]
        ELSE ParentAt(p, MarkerCount(r.cfg))

\* --------------------------------------------- filesystem of an archive call
InpArgs == {"/models/event1/scenario.inp", "/models/scenario.inp", "scenario.inp"}
ZipArgs == {"sfincs.zip", "model.tar", "/out/model"}

\* The file each value of cfg names, seen from the config's directory.
TargetOf(dir, value) == Resolve(PathJoin(dir, PathOf(value)))
Targets(arg, cfg) ==
    {TargetOf(Parent(Resolve(PathOf(arg))), cfg[k]) : k \in DOMAIN cfg}

\* file_path.exists()
Exists(p) == p \in exists \/ p \in DOMAIN cfgs

Unparsable == [parsable |-> FALSE, cfg |-> EmptyCfg]

\* An archive entry: the file written and the name it is stored under.
OldEntry == [src |-> PathOf("/old/stale.bin"), arc |-> PathOf("stale.bin")]
Absent == [present |-> FALSE, locked |-> FALSE, entries |-> <<>>]
DestStates ==
    {Absent} \cup {[present |-> TRUE, locked |-> l, entries |-> <<OldEntry>>] : l \in BOOLEAN}

Pending == [kind |-> "pending", ret |-> NoPath]
Failed(kind) == [kind |-> kind, ret |-> NoPath]
NoRoot == [err |-> "pending", path |-> NoPath]

FilesInit ==
    /\ inp \in InpArgs
    /\ \E content \in {Unparsable} \cup {[parsable |-> TRUE, cfg |-> c] : c \in Configs} :
         /\ cfgs \in {[p \in {} |-> Unparsable],
                      [p \in {Resolve(PathOf(inp))} |-> content]}
         /\ exists \in SUBSET Targets(inp, content.cfg)
    /\ zip_arg \in ZipArgs
    /\ zip0 \in DestStates
    /\ zip = zip0
    /\ zip_path = NoPath
    /\ root_res = NoRoot
    /\ apc = "start"
    /\ files = <<>>
    /\ base = NoPath
    /\ widx = 1
    /\ warnings = <<>>
    /\ aout = Pending

\* ------------------------------------ get_sfincs_basemodel_root, direct call
RootCall ==
    /\ apc = "start"
    /\ root_res' = BasemodelRoot(PathOf(inp))
    /\ apc' = "root_done"
    /\ UNCHANGED <<rvars, cfgs, exists, inp, zip_arg, zip_path, zip, zip0, files, base,
                   widx, warnings, aout>>

\* ------------------------------------------- create_sfincs_model_archive
\* Index of the last "." of s, 0 if none.
LastDot(s) == MaxOf({i \in 1..Len(s) : SubSeq(s, i, i) = "."})

\* PurePath.suffix of a file name
Suffix(name) ==
    IF LastDot(name) > 1 /\ LastDot(name) < Len(name)
    THEN SubSeq(name, LastDot(name), Len(name)) ELSE ""

\* p.with_suffix(ext)
WithSuffix(p, ext) ==
    LET n == Name(p)
        stem == SubSeq(n, 1, Len(n) - Len(Suffix(n)))
    IN  [abs |-> p.abs, parts |-> SubSeq(p.parts, 1, Len(p.parts) - 1) \o <<stem \o ext>>]

\* Lines 171-175: the destination carries ".zip" and is absolute.
ZipFilename(arg, sfincs_inp) ==
    LET z  == PathOf(arg)
        z2 == IF Suffix(Name(z)) # ".zip" THEN WithSuffix(z, ".zip") ELSE z
    IN  IF z2.abs THEN z2 ELSE PathJoin(Parent(sfincs_inp), z2)

\* Lines 170-180: resolve the arguments and clear a stale destination.
\* ArchStartKeepStale is the step without the unlink.
ArchStartKeepStale ==
    /\ apc = "start"
    /\ zip_path' = ZipFilename(zip_arg, Resolve(PathOf(inp)))
    /\ apc' = "collect"
    /\ UNCHANGED <<zip, aout>>
    /\ UNCHANGED <<rvars, cfgs, exists, inp, root_res, zip_arg, zip0, files, base, widx, warnings>>

ArchStart ==
    /\ apc = "start"
    /\ zip_path' = ZipFilename(zip_arg, Resolve(PathOf(inp)))
    /\ IF zip.present
       THEN IF zip.locked
            THEN /\ aout' = Failed("ArchiveInUse")
                 /\ apc' = "done"
                 /\ UNCHANGED zip
            ELSE /\ zip' = Absent
                 /\ apc' = "collect"
                 /\ UNCHANGED aout
       ELSE /\ apc' = "collect"
            /\ UNCHANGED <<zip, aout>>
    /\ UNCHANGED <<rvars, cfgs, exists, inp, root_res, zip_arg, zip0, files, base, widx, warnings>>

\* The loop of lines 186-193 over the items `ks` still to visit: the files
\* found so far and the values warned about.
RECURSIVE CollectStrict(_, _, _, _)
CollectStrict(ks, cfg, dir, acc) ==
    IF ks = <<>> THEN acc
    ELSE LET k == Head(ks)
             f == TargetOf(dir, cfg[k])
         IN  IF ~Contains(k, "file") \/ acc.err # "none"
             THEN CollectStrict(Tail(ks), cfg, dir, acc)
             ELSE IF Exists(f)
                  THEN CollectStrict(Tail(ks), cfg, dir,
                                     [acc EXCEPT !.files = Append(@, f)])
                  ELSE CollectStrict(Tail(ks), cfg, dir,
                                     [acc EXCEPT !.err = "NotFound"])

RECURSIVE Collect(_, _, _, _)
Collect(ks, cfg, dir, acc) ==
    IF ks = <<>> THEN acc
    ELSE LET k == Head(ks)
             f == TargetOf(dir, cfg[k])
         IN  IF ~Contains(k, "file")
             THEN Collect(Tail(ks), cfg, dir, acc)
             ELSE IF Exists(f)
                  THEN Collect(Tail(ks), cfg, dir, [acc EXCEPT !.files = Append(@, f)])
                  ELSE Collect(Tail(ks), cfg, dir,
                               [acc EXCEPT !.warned = Append(@, cfg[k])])

\* Lines 182-193: base_folder and the list of files.
ArchCollect ==
    /\ apc = "collect"
    /\ LET sfincs_inp == Resolve(PathOf(inp))
           root == BasemodelRoot(sfincs_inp)
           got  == Collect(Items(FromFile(sfincs_inp).cfg), FromFile(sfincs_inp).cfg,
                           Parent(sfincs_inp),
                           [err |-> "none", files |-> <<sfincs_inp>>, warned |-> <<>>])
       IN  IF root.err # "none"
           THEN /\ aout' = Failed(root.err)
                /\ apc' = "done"
                /\ UNCHANGED <<files, base, warnings>>
           ELSE IF got.err # "none"
                THEN /\ aout' = Failed(got.err)
                     /\ apc' = "done"
                     /\ base' = root.path
                     /\ UNCHANGED <<files, warnings>>
                ELSE /\ base' = root.path
                     /\ files' = got.files
                     /\ warnings' = got.warned
                     /\ apc' = "open"
                     /\ UNCHANGED aout
    /\ UNCHANGED <<rvars, cfgs, exists, inp, root_res, zip_arg, zip_path, zip, zip0, widx>>

\* Line 195: ZipFile(zip_filename, "w") creates the archive, empty.
ArchOpen ==
    /\ apc = "open"
    /\ zip' = [present |-> TRUE, locked |-> FALSE, entries |-> <<>>]
    /\ apc' = "write"
    /\ UNCHANGED <<rvars, cfgs, exists, inp, root_res, zip_arg, zip_path, zip0, files, base,
                   widx, warnings, aout>>

\* The name a file is stored under: arcname = file.relative_to(base_folder)
ArcName(f, b) == RelativeTo(f, b)

\* Lines 196-197, one file: a file outside base_folder raises ValueError and
\* the with-block closes the archive as written so far.
\* ArchWriteOrRemove is a write that removes the archive when it fails.
ArchWriteOrRemove ==
    /\ apc = "write"
    /\ widx <= Len(files)
    /\ LET arc == ArcName(files[widx], base)
       IN  IF arc.err # "none"
           THEN /\ aout' = Failed(arc.err)
                /\ apc' = "done"
                /\ zip' = Absent
                /\ UNCHANGED widx
           ELSE /\ zip' = [zip EXCEPT !.entries =
                              Append(@, [src |-> files[widx], arc |-> arc.path])]
                /\ widx' = widx + 1
                /\ UNCHANGED <<apc, aout>>
    /\ UNCHANGED <<rvars, cfgs, exists, inp, root_res, zip_arg, zip_path, zip0, files, base, warnings>>

ArchWrite ==
    /\ apc = "write"
    /\ widx <= Len(files)
    /\ LET arc == ArcName(files[widx], base)
       IN  IF arc.err # "none"
           THEN /\ aout' = Failed(arc.err)
                /\ apc' = "done"
                /\ UNCHANGED <<zip, widx>>
           ELSE /\ zip' = [zip EXCEPT !.entries =
                              Append(@, [src |-> files[widx], arc |-> arc.path])]
                /\ widx' = widx + 1
                /\ UNCHANGED <<apc, aout>>
    /\ UNCHANGED <<rvars, cfgs, exists, inp, root_res, zip_arg, zip_path, zip0, files, base, warnings>>

\* Line 199
ArchReturn ==
    /\ apc = "write"
    /\ widx > Len(files)
    /\ aout' = [kind |-> "ok", ret |-> zip_path]
    /\ apc' = "done"
    /\ UNCHANGED <<rvars, cfgs, exists, inp, root_res, zip_arg, zip_path, zip, zip0, files,
                   base, widx, warnings>>

FilesNext ==
    \/ RootCall
    \/ ArchStart
    \/ ArchCollect
    \/ ArchOpen
    \/ ArchWrite
    \/ ArchReturn


\* ================================================================ run_sfincs
Supported == {"exe", "docker", "apptainer"}
Containers == {"docker", "apptainer"}
Methods == Supported \cup {"singularity"}
RunInpArgs == {"/models/event1/sfincs.inp", "/models/event1/scenario.inp"}
SfincsExe == "/opt/sfincs/sfincs.exe"
DockerTag == "sfincs-v2.1.1-Dollerup-Release"
Platforms == {"Windows", "Linux"}

\* Lines the simulator writes: the banner separator, its failure notice and
\* an ordinary line.
Lines == {" ---\n", "Simulation stopped\n", "Info : running\n"}
Streams == {"out", "err"}
ExitCodes == {0, 1, 127, -9}

\* How subprocess.run of a probe ends: with a return code, or raising
\* FileNotFoundError because the engine's binary is not on PATH.
ProbeEnds ==
    {[state |-> "exit", rc |-> 0], [state |-> "exit", rc |-> 1],
     [state |-> "enoent", rc |-> 0]}
NoProbe == [state |-> "none", rc |-> 0]

RunConfigs ==
    {[k \in {"depfile"} |-> v] :
        v \in {"topo.tif"} \cup {UpStr(n) \o "static/topo.tif" : n \in 1..MaxUp}}

\* The log file: its lines and, for each line, the stream it was read from
\* ("earlier" for what an earlier run left).
NoLog == [present |-> FALSE, lines |-> <<>>, from |-> <<>>]
OldLog == [present |-> TRUE, lines |-> <<"Simulation stopped\n">>, from |-> <<"earlier">>]
NoPopen == [cmd |-> <<>>, cwd |-> NoPath]

NoWrite == [stream |-> "none", line |-> ""]
NoHost == [sys |-> "", exe_is_file |-> FALSE]
NoCode == [set |-> FALSE, code |-> 0]
Running == [kind |-> "running", code |-> 0, at |-> ""]
Raised(kind, at) == [kind |-> kind, code |-> 0, at |-> at]

RECURSIVE JoinParts(_)
JoinParts(parts) ==
    IF parts = <<>> THEN ""
    ELSE IF Len(parts) = 1 THEN parts[1]
         ELSE parts[1] \o "/" \o JoinParts(Tail(parts))

\* str(p), p.as_posix()
PathStr(p) ==
    IF p.abs THEN "/" \o JoinParts(p.parts)
    ELSE IF p.parts = <<>> THEN "." ELSE JoinParts(p.parts)

RECURSIVE Concat(_)
Concat(ls) == IF ls = <<>> THEN "" ELSE Head(ls) \o Concat(Tail(ls))

\* f.read() of the log file
LogText(l) == Concat(l.lines)

IsSpace(c) == c \in {" ", "\n", "\t", "\r"}

RECURSIVE LStrip(_)
LStrip(s) ==
    IF Len(s) > 0 /\ IsSpace(SubSeq(s, 1, 1)) THEN LStrip(SubSeq(s, 2, Len(s))) ELSE s

RECURSIVE RStrip(_)
RStrip(s) ==
    IF Len(s) > 0 /\ IsSpace(SubSeq(s, Len(s), Len(s)))
    THEN RStrip(SubSeq(s, 1, Len(s) - 1)) ELSE s

RECURSIVE RStripNl(_)
RStripNl(s) ==
    IF Len(s) > 0 /\ SubSeq(s, Len(s), Len(s)) = "\n"
    THEN RStripNl(SubSeq(s, 1, Len(s) - 1)) ELSE s

\* set(line.strip()) == set(["-"])
IsBanner(line) ==
    LET t == LStrip(RStrip(line))
    IN  Len(t) > 0 /\ \A i \in 1..Len(t) : SubSeq(t, i, i) = "-"

Parked ==
    /\ exists = {}
    /\ root_res = NoRoot
    /\ apc = "unused"
    /\ zip_arg = ""
    /\ zip_path = NoPath
    /\ zip = Absent
    /\ zip0 = Absent
    /\ files = <<>>
    /\ base = NoPath
    /\ widx = 1
    /\ warnings = <<>>
    /\ aout = Pending

\* The model directory holds the config the caller names; when that is not
\* sfincs.inp, a sfincs.inp may lie beside it.
RunInit ==
    /\ Parked
    /\ run_method \in Methods
    /\ verbose \in BOOLEAN
    /\ inp \in RunInpArgs
    /\ \E own \in RunConfigs :
         \/ cfgs = [p \in {} |-> Unparsable]
         \/ cfgs = [p \in {Resolve(PathOf(inp))} |-> [parsable |-> TRUE, cfg |-> own]]
         \/ /\ Name(PathOf(inp)) # "sfincs.inp"
            /\ \E other \in RunConfigs :
                 cfgs = [p \in {Resolve(PathOf(inp)),
                                PathJoin(Parent(Resolve(PathOf(inp))), PathOf("sfincs.inp"))} |->
                            [parsable |-> TRUE,
                             cfg |-> IF p = Resolve(PathOf(inp)) THEN own ELSE other]]
    /\ log0 \in {NoLog, OldLog}
    /\ log = log0
    /\ host = NoHost
    /\ probe = NoProbe
    /\ rpc = "start"
    /\ model_root = NoPath
    /\ base_folder = NoPath
    /\ cmd = <<>>
    /\ print_log = FALSE
    /\ return_code = NoCode
    /\ rout = Running
    /\ child = "none"
    /\ pending = NoWrite
    /\ out_pipe = <<>>
    /\ err_pipe = <<>>
    /\ exit_code = 0
    /\ console = <<>>
    /\ popen = NoPopen
    /\ emitted = [s \in Streams |-> <<>>]
    /\ trace = <<>>

\* What no step of run_sfincs changes: its arguments, the config files and
\* the state of the archive call.
afixed == <<exists, root_res, apc, zip_arg, zip_path, zip, zip0, files, base, widx,
            warnings, aout>>
args == <<cfgs, inp, run_method, verbose, log0, afixed>>
locals == <<model_root, base_folder, cmd, print_log, return_code>>
proc == <<child, pending, out_pipe, err_pipe, exit_code, emitted>>

\* Lines 38-40.  RunValidateNothing is the call without the check.
RunValidateNothing ==
    /\ rpc = "start"
    /\ rpc' = "check_inp"
    /\ UNCHANGED <<popen, args, locals, proc, host, probe, rout, log, console, trace>>

RunValidate ==
    /\ rpc = "start"
    /\ IF run_method \notin Supported
       THEN /\ rout' = Raised("ConfigurationError", "run_method")
            /\ rpc' = "done"
       ELSE /\ rpc' = "check_inp"
            /\ UNCHANGED rout
    /\ UNCHANGED <<popen, args, locals, proc, host, probe, log, console, trace>>

\* Lines 42-44
RunCheckInp ==
    /\ rpc = "check_inp"
    /\ trace' = Append(trace, "is_file sfincs_inp")
    /\ IF Resolve(PathOf(inp)) \notin DOMAIN cfgs
       THEN /\ rout' = Raised("NotFound", "sfincs_inp")
            /\ rpc' = "done"
       ELSE /\ rpc' = "resolve"
            /\ UNCHANGED rout
    /\ UNCHANGED <<popen, args, locals, proc, host, probe, log, console>>

\* Lines 45-46: the resolver reads model_root / "sfincs.inp".
RunResolve ==
    /\ rpc = "resolve"
    /\ LET root == Resolve(Parent(PathOf(inp)))
           r    == BasemodelRoot(PathJoin(root, PathOf("sfincs.inp")))
       IN  /\ model_root' = root
           /\ trace' = Append(trace, "read sfincs.inp")
           /\ IF r.err # "none"
              THEN /\ rout' = Raised(r.err, "base_folder")
                   /\ rpc' = "done"
                   /\ UNCHANGED base_folder
              ELSE /\ base_folder' = r.path
                   /\ rpc' = "build"
                   /\ UNCHANGED rout
    /\ UNCHANGED <<popen, args, cmd, print_log, return_code, proc, host, probe, log, console>>

\* Lines 49-55.  RunBuildExeFileFirst looks for the executable before it
\* looks at the platform.
RunBuildExeFileFirst ==
    /\ rpc = "build"
    /\ run_method = "exe"
    /\ \E sys \in Platforms, is_file \in BOOLEAN :
         /\ host' = [sys |-> sys, exe_is_file |-> is_file]
         /\ trace' = Append(trace, "is_file sfincs_exe")
         /\ IF ~is_file
            THEN /\ rout' = Raised("NotFound", "sfincs_exe")
                 /\ rpc' = "done"
                 /\ UNCHANGED cmd
            ELSE IF sys # "Windows"
                 THEN /\ rout' = Raised("PlatformError", "sfincs_exe")
                      /\ rpc' = "done"
                      /\ UNCHANGED cmd
                 ELSE /\ cmd' = <<PathStr(Resolve(PathOf(SfincsExe)))>>
                      /\ rpc' = "spawn"
                      /\ UNCHANGED rout
    /\ UNCHANGED <<popen, args, model_root, base_folder, print_log, return_code, proc, probe,
                   log, console>>

RunBuildExe ==
    /\ rpc = "build"
    /\ run_method = "exe"
    /\ \E sys \in Platforms, is_file \in BOOLEAN :
         IF sys # "Windows"
         THEN /\ host' = [sys |-> sys, exe_is_file |-> is_file]
              /\ rout' = Raised("PlatformError", "sfincs_exe")
              /\ rpc' = "done"
              /\ UNCHANGED <<cmd, trace>>
         ELSE /\ host' = [sys |-> sys, exe_is_file |-> is_file]
              /\ trace' = Append(trace, "is_file sfincs_exe")
              /\ IF ~is_file
                 THEN /\ rout' = Raised("NotFound", "sfincs_exe")
                      /\ rpc' = "done"
                      /\ UNCHANGED cmd
                 ELSE /\ cmd' = <<PathStr(Resolve(PathOf(SfincsExe)))>>
                      /\ rpc' = "spawn"
                      /\ UNCHANGED rout
    /\ UNCHANGED <<popen, args, model_root, base_folder, print_log, return_code, proc, probe,
                   log, console>>

\* The argument list of lines 61-68
DockerCmd(b, root) ==
    <<"docker", "run", "-v" \o PathStr(b) \o "://data", "-w",
      "/data/" \o PathStr(RelativeTo(root, b).path), "deltares/sfincs-cpu:" \o DockerTag>>

\* The argument list of lines 74-81.  ApptainerCmdAsDocker is that list with
\* docker's working-directory flag.
ApptainerCmdAsDocker(b, root) ==
    <<"apptainer", "run", "-B" \o PathStr(b) \o ":/data", "-w",
      "/data/" \o PathStr(RelativeTo(root, b).path),
      "docker://deltares/sfincs-cpu:" \o DockerTag>>

ApptainerCmd(b, root) ==
    <<"apptainer", "run", "-B" \o PathStr(b) \o ":/data", "--pwd",
      "/data/" \o PathStr(RelativeTo(root, b).path),
      "docker://deltares/sfincs-cpu:" \o DockerTag>>

\* Lines 57-60 and 70-73: subprocess.run of the probe, then the test of its
\* return code.  A probe that cannot be started raises out of subprocess.run.
ProbeOutcome(p, name) ==
    IF p.state = "enoent" THEN Raised("NotFound", name)
    ELSE IF p.rc # 0 THEN Raised("BackendUnavailableError", name)
         ELSE Running

\* Lines 56-68
RunBuildDocker ==
    /\ rpc = "build"
    /\ run_method = "docker"
    /\ \E p \in ProbeEnds :
         /\ probe' = p
         /\ trace' = Append(trace, "probe docker stats --no-stream")
         /\ rout' = ProbeOutcome(p, "docker")
         /\ IF ProbeOutcome(p, "docker") # Running
            THEN rpc' = "done" /\ UNCHANGED cmd
            ELSE rpc' = "spawn" /\ cmd' = DockerCmd(base_folder, model_root)
    /\ UNCHANGED <<popen, args, model_root, base_folder, print_log, return_code, proc, host,
                   log, console>>

\* Lines 69-81
RunBuildApptainer ==
    /\ rpc = "build"
    /\ run_method = "apptainer"
    /\ \E p \in ProbeEnds :
         /\ probe' = p
         /\ trace' = Append(trace, "probe apptainer version")
         /\ rout' = ProbeOutcome(p, "apptainer")
         /\ IF ProbeOutcome(p, "apptainer") # Running
            THEN rpc' = "done" /\ UNCHANGED cmd
            ELSE rpc' = "spawn" /\ cmd' = ApptainerCmd(base_folder, model_root)
    /\ UNCHANGED <<popen, args, model_root, base_folder, print_log, return_code, proc, host,
                   log, console>>

\* Lines 84-95: Popen(cmd, cwd=model_root) with both streams piped.
RunSpawn ==
    /\ rpc = "spawn"
    /\ child' = "running"
    /\ popen' = [cmd |-> cmd, cwd |-> model_root]
    /\ trace' = Append(trace, "spawn")
    /\ rpc' = "open_log"
    /\ UNCHANGED <<args, locals, pending, out_pipe, err_pipe, exit_code, emitted, host,
                   probe, rout, log, console>>

\* Line 96: open(log_file, "w") creates or truncates the log.
\* RunOpenLogLazy is an open that leaves the file to the first write.
RunOpenLogLazy ==
    /\ rpc = "open_log"
    /\ trace' = Append(trace, "open sfincs_log.txt")
    /\ rpc' = "read_out"
    /\ UNCHANGED <<popen, args, locals, proc, host, probe, rout, log, console>>

\* RunOpenLogAppend is an open in append mode.
RunOpenLogAppend ==
    /\ rpc = "open_log"
    /\ log' = [log EXCEPT !.present = TRUE]
    /\ trace' = Append(trace, "open sfincs_log.txt")
    /\ rpc' = "read_out"
    /\ UNCHANGED <<popen, args, locals, proc, host, probe, rout, console>>

RunOpenLog ==
    /\ rpc = "open_log"
    /\ log' = [present |-> TRUE, lines |-> <<>>, from |-> <<>>]
    /\ trace' = Append(trace, "open sfincs_log.txt")
    /\ rpc' = "read_out"
    /\ UNCHANGED <<popen, args, locals, proc, host, probe, rout, console>>

\* ------------------------------------------------------------ the child
Pipe(s) == IF s = "out" THEN out_pipe ELSE err_pipe

\* The child writes a line: into the pipe when it has room, and otherwise
\* the write blocks until the reader has made room.
ChildWrite ==
    /\ child = "running"
    /\ pending = NoWrite
    /\ Len(emitted["out"]) + Len(emitted["err"]) < MaxLines
    /\ \E s \in Streams, line \in Lines :
         IF Len(Pipe(s)) < PipeCap
         THEN /\ out_pipe' = IF s = "out" THEN Append(out_pipe, line) ELSE out_pipe
              /\ err_pipe' = IF s = "err" THEN Append(err_pipe, line) ELSE err_pipe
              /\ emitted' = [emitted EXCEPT ![s] = Append(@, line)]
              /\ UNCHANGED pending
         ELSE /\ pending' = [stream |-> s, line |-> line]
              /\ UNCHANGED <<out_pipe, err_pipe, emitted>>
    /\ UNCHANGED <<popen, args, locals, child, exit_code, host, probe, rpc, rout, log, console,
                   trace>>

\* A blocked write completes once its pipe has room.
ChildUnblock ==
    /\ child = "running"
    /\ pending # NoWrite
    /\ Len(Pipe(pending.stream)) < PipeCap
    /\ out_pipe' = IF pending.stream = "out" THEN Append(out_pipe, pending.line) ELSE out_pipe
    /\ err_pipe' = IF pending.stream = "err" THEN Append(err_pipe, pending.line) ELSE err_pipe
    /\ emitted' = [emitted EXCEPT ![pending.stream] = Append(@, pending.line)]
    /\ pending' = NoWrite
    /\ UNCHANGED <<popen, args, locals, child, exit_code, host, probe, rpc, rout, log, console,
                   trace>>

\* The child exits, which closes its ends of both pipes.
ChildExit ==
    /\ child = "running"
    /\ pending = NoWrite
    /\ \E c \in ExitCodes : exit_code' = c
    /\ child' = "exited"
    /\ UNCHANGED <<popen, args, locals, pending, out_pipe, err_pipe, emitted, host, probe, rpc,
                   rout, log, console, trace>>

\* ------------------------------------------------------ the drain loops
\* RunReadOutLogEchoed is a loop that writes to the log what it echoes.
RunReadOutLogEchoed ==
    /\ rpc = "read_out"
    /\ out_pipe # <<>>
    /\ LET line == Head(out_pipe)
           show == IF verbose /\ ~print_log THEN IsBanner(line) ELSE print_log
       IN  /\ print_log' = show
           /\ console' = IF show THEN Append(console, [from |-> "out", text |-> RStripNl(line)])
                         ELSE console
           /\ log' = IF show
                     THEN [log EXCEPT !.lines = Append(@, line), !.from = Append(@, "out")]
                     ELSE log
    /\ out_pipe' = Tail(out_pipe)
    /\ UNCHANGED <<popen, args, model_root, base_folder, cmd, return_code, child, pending,
                   err_pipe, exit_code, emitted, host, probe, rpc, rout, trace>>

\* Lines 97-103, one iteration.  RunReadOutUnfiltered echoes every line of a
\* verbose run.
RunReadOutUnfiltered ==
    /\ rpc = "read_out"
    /\ out_pipe # <<>>
    /\ print_log' = verbose
    /\ console' = IF verbose
                  THEN Append(console, [from |-> "out", text |-> RStripNl(Head(out_pipe))])
                  ELSE console
    /\ log' = [log EXCEPT !.lines = Append(@, Head(out_pipe)), !.from = Append(@, "out")]
    /\ out_pipe' = Tail(out_pipe)
    /\ UNCHANGED <<popen, args, model_root, base_folder, cmd, return_code, child, pending,
                   err_pipe, exit_code, emitted, host, probe, rpc, rout, trace>>

RunReadOut ==
    /\ rpc = "read_out"
    /\ out_pipe # <<>>
    /\ LET line == Head(out_pipe)
           show == IF verbose /\ ~print_log THEN IsBanner(line) ELSE print_log
       IN  /\ print_log' = show
           /\ console' = IF show THEN Append(console, [from |-> "out", text |-> RStripNl(line)])
                         ELSE console
           /\ log' = [log EXCEPT !.lines = Append(@, line), !.from = Append(@, "out")]
    /\ out_pipe' = Tail(out_pipe)
    /\ UNCHANGED <<popen, args, model_root, base_folder, cmd, return_code, child, pending,
                   err_pipe, exit_code, emitted, host, probe, rpc, rout, trace>>

\* Line 97 at end of file: the loop ends when the child has closed stdout.
\* RunReadOutEofOnly is a call that leaves stderr unread.
RunReadOutEofOnly ==
    /\ rpc = "read_out"
    /\ out_pipe = <<>>
    /\ child = "exited"
    /\ rpc' = "wait"
    /\ UNCHANGED <<popen, args, locals, proc, host, probe, rout, log, console, trace>>

RunReadOutEof ==
    /\ rpc = "read_out"
    /\ out_pipe = <<>>
    /\ child = "exited"
    /\ rpc' = "read_err"
    /\ UNCHANGED <<popen, args, locals, proc, host, probe, rout, log, console, trace>>

\* Lines 104-107, one iteration.  RunReadErrEchoOnly is a loop that echoes
\* stderr and does not write it to the log.
RunReadErrEchoOnly ==
    /\ rpc = "read_err"
    /\ err_pipe # <<>>
    /\ console' = IF verbose
                  THEN Append(console, [from |-> "err", text |-> RStripNl(Head(err_pipe))])
                  ELSE console
    /\ err_pipe' = Tail(err_pipe)
    /\ UNCHANGED <<popen, args, locals, child, pending, out_pipe, exit_code, emitted, host,
                   probe, rpc, rout, trace, log>>

RunReadErr ==
    /\ rpc = "read_err"
    /\ err_pipe # <<>>
    /\ console' = IF verbose
                  THEN Append(console, [from |-> "err", text |-> RStripNl(Head(err_pipe))])
                  ELSE console
    /\ log' = [log EXCEPT !.lines = Append(@, Head(err_pipe)), !.from = Append(@, "err")]
    /\ err_pipe' = Tail(err_pipe)
    /\ UNCHANGED <<popen, args, locals, child, pending, out_pipe, exit_code, emitted, host,
                   probe, rpc, rout, trace>>

\* Line 104 at end of file
RunReadErrEof ==
    /\ rpc = "read_err"
    /\ err_pipe = <<>>
    /\ child = "exited"
    /\ rpc' = "wait"
    /\ UNCHANGED <<popen, args, locals, proc, host, probe, rout, log, console, trace>>

\* Lines 108-109
RunWait ==
    /\ rpc = "wait"
    /\ child = "exited"
    /\ return_code' = [set |-> TRUE, code |-> exit_code]
    /\ rpc' = "classify"
    /\ UNCHANGED <<popen, args, model_root, base_folder, cmd, print_log, proc, host, probe,
                   rout, log, console, trace>>

\* Lines 111-127.  ClassifyLogFirst reads the log before the return code.
ClassifyLogFirst(code, text) ==
    IF Contains(text, "Simulation stopped") THEN Raised("ReportedFailure", "log")
    ELSE IF code = 127 THEN Raised("BackendNotFound", run_method)
         ELSE IF code # 0 THEN [kind |-> "NonZeroExit", code |-> code, at |-> ""]
              ELSE [kind |-> "Succeeded", code |-> 0, at |-> ""]

\* ClassifyByCodeOnly leaves the log unread.
ClassifyByCodeOnly(code, text) ==
    IF code = 127 THEN Raised("BackendNotFound", run_method)
    ELSE IF code # 0 THEN [kind |-> "NonZeroExit", code |-> code, at |-> ""]
         ELSE [kind |-> "Succeeded", code |-> 0, at |-> ""]

Classify(code, text) ==
    IF code = 127 THEN Raised("BackendNotFound", run_method)
    ELSE IF code # 0 THEN [kind |-> "NonZeroExit", code |-> code, at |-> ""]
         ELSE IF Contains(text, "Simulation stopped")
              THEN Raised("ReportedFailure", "log")
              ELSE [kind |-> "Succeeded", code |-> 0, at |-> ""]

RunClassify ==
    /\ rpc = "classify"
    /\ rout' = Classify(return_code.code, LogText(log))
    /\ trace' = IF return_code.code = 0 THEN Append(trace, "read sfincs_log.txt") ELSE trace
    /\ rpc' = "done"
    /\ UNCHANGED <<popen, args, locals, proc, host, probe, log, console>>

RunNext ==
    \/ RunValidate
    \/ RunCheckInp
    \/ RunResolve
    \/ RunBuildExe
    \/ RunBuildDocker
    \/ RunBuildApptainer
    \/ RunSpawn
    \/ RunOpenLog
    \/ ChildWrite
    \/ ChildUnblock
    \/ ChildExit
    \/ RunReadOut
    \/ RunReadOutEof
    \/ RunReadErr
    \/ RunReadErrEof
    \/ RunWait
    \/ RunClassify

Init == RunInit
Next == RunNext
Spec == Init /\ [][Next]_vars

\* ------------------------------------------------- the archive's own runs
RunParked ==
    /\ run_method = ""
    /\ verbose = FALSE
    /\ host = NoHost
    /\ probe = NoProbe
    /\ rpc = "unused"
    /\ model_root = NoPath
    /\ base_folder = NoPath
    /\ cmd = <<>>
    /\ print_log = FALSE
    /\ return_code = NoCode
    /\ rout = Running
    /\ child = "none"
    /\ pending = NoWrite
    /\ out_pipe = <<>>
    /\ err_pipe = <<>>
    /\ exit_code = 0
    /\ log = NoLog
    /\ log0 = NoLog
    /\ console = <<>>
    /\ popen = NoPopen
    /\ emitted = [s \in Streams |-> <<>>]
    /\ trace = <<>>

FilesStart == FilesInit /\ RunParked
FilesSpec == FilesStart /\ [][FilesNext]_vars

\* ===================================================== claims, FilesSpec
\* What the claims speak of, stated without the code's operators.
RECURSIVE WalkUp(_, _)
WalkUp(dir, n) == IF n = 0 THEN dir ELSE WalkUp(Parent(dir), n - 1)

\* The parent-directory markers of a value: its ".." segments.
ParentMarkers(value) ==
    Cardinality({i \in 1..Len(PathOf(value).parts) : PathOf(value).parts[i] = ".."})

FileKeys(cfg) == {k \in DOMAIN cfg : k \in {"depfile", "bndfile"}}

\* N of the spec: the maximum marker count over the file-valued entries.
SpecN(cfg) == MaxOf({ParentMarkers(cfg[k]) : k \in FileKeys(cfg)})

TheInp == Resolve(PathOf(inp))
TheCfg == FromFile(TheInp)
OwnDir == Parent(TheInp)
Referenced == {TargetOf(OwnDir, TheCfg.cfg[k]) : k \in FileKeys(TheCfg.cfg)}
Range(seq) == {seq[i] : i \in 1..Len(seq)}

ExampleConfig ==
    /\ inp = "/models/event1/scenario.inp"
    /\ TheCfg.err = "none"
    /\ TheCfg.cfg = [k \in {"depfile"} |-> "../../static/topo.tif"]

C7_MissingFilesOmitted ==
    apc = "done" =>
        /\ aout.kind = "ok" =>
              /\ {e.src : e \in Range(zip.entries)}
                    = {TheInp} \cup {f \in Referenced : Exists(f)}
              /\ Range(warnings)
                    = {TheCfg.cfg[k] : k \in {x \in FileKeys(TheCfg.cfg) :
                                                ~Exists(TargetOf(OwnDir, TheCfg.cfg[x]))}}
        /\ aout.kind # "ok" =>
              \/ aout.kind = "ArchiveInUse" /\ zip0.present /\ zip0.locked
              \/ aout.kind = "NotFound" /\ TheInp \notin DOMAIN cfgs
              \/ aout.kind = "ParseError" /\ TheInp \in DOMAIN cfgs
                    /\ ~cfgs[TheInp].parsable
              \/ aout.kind = "IndexError" /\ TheCfg.err = "none"
                    /\ SpecN(TheCfg.cfg) >= Len(TheInp.parts)
              \/ aout.kind = "ValueError"
                    /\ \E f \in Referenced :
                          Exists(f) /\ ~IsPrefix(base.parts, f.parts)

C7_Witness ==
    /\ apc = "done"
    /\ aout.kind = "ok"
    /\ warnings # <<>>
    /\ Len(zip.entries) = 2

\* The entries this call has written into the archive.
Written ==
    IF apc = "write" \/ (apc = "done" /\ aout.kind \in {"ok", "ValueError"})
    THEN zip.entries ELSE <<>>

EntriesInsideBase ==
    \A e \in Range(Written) :
        /\ ~e.arc.abs
        /\ ~HasParentMarker(e.arc)
        /\ PathJoin(base, e.arc) = e.src

ExampleArchived ==
    /\ ExampleConfig
    /\ exists = {PathOf("/static/topo.tif")}
    /\ apc = "done"
    /\ aout.kind = "ok"

\* C8 (as stated): every entry is stored under its source's path relative to
\* BaseRoot, without parent-directory marker, so that extraction at BaseRoot
\* puts it back at its path; the example is stored as event1/scenario.inp and
\* static/topo.tif.
C8_Orig ==
    /\ EntriesInsideBase
    /\ ExampleArchived =>
          [i \in 1..Len(zip.entries) |-> zip.entries[i].arc]
              = <<PathOf("event1/scenario.inp"), PathOf("static/topo.tif")>>

\* C8 (amended): every entry is stored under its source's path relative to
\* BaseRoot, without parent-directory marker, so that extraction at BaseRoot
\* puts it back at its path; the example, whose BaseRoot is "/", is stored as
\* models/event1/scenario.inp and static/topo.tif.
C8_EntriesRelative ==
    /\ EntriesInsideBase
    /\ ExampleArchived =>
          [i \in 1..Len(zip.entries) |-> zip.entries[i].arc]
              = <<PathOf("models/event1/scenario.inp"), PathOf("static/topo.tif")>>

C8_Witness ==
    /\ ExampleArchived
    /\ Len(zip.entries) = 2
    /\ zip.entries[2].arc = PathOf("static/topo.tif")

\* C10: a file at the destination is deleted before the new archive is
\* written, a completed call leaves only the entries of its own manifest, and
\* a destination that cannot be deleted fails the call with ArchiveInUse
\* before anything is written.
C10_StaleDestination ==
    /\ apc \in {"collect", "open"} => ~zip.present
    /\ (apc = "done" /\ aout.kind = "ok") =>
          /\ [i \in 1..Len(zip.entries) |-> zip.entries[i].src] = files
          /\ OldEntry \notin Range(zip.entries)
    /\ (apc = "done" /\ zip0.present /\ zip0.locked) =>
          /\ aout.kind = "ArchiveInUse"
          /\ zip = zip0
          /\ files = <<>>
    /\ aout.kind = "ArchiveInUse" => zip0.present /\ zip0.locked

C10_Witness ==
    /\ apc = "done"
    /\ aout.kind = "ok"
    /\ zip0.present
    /\ Len(zip.entries) = 2

\* ========================================================== claims, Spec
Spawned == \E i \in 1..Len(trace) : trace[i] = "spawn"
ProbeAt == {i \in 1..Len(trace) : SubSeq(trace[i], 1, 5) = "probe"}
LogReports == Contains(LogText(log), "Simulation stopped")

\* C1: with a run_method outside the three supported ones the call raises
\* ConfigurationError as its first act: no file is looked at or written, and
\* neither a probe nor the simulator is started, whatever the other arguments.
C1_UnsupportedMethod ==
    run_method \notin Supported =>
        /\ rpc \in {"start", "done"}
        /\ rpc = "done" => rout.kind = "ConfigurationError"
        /\ trace = <<>>
        /\ log = log0
        /\ probe = NoProbe
        /\ child = "none"

C1_Witness ==
    /\ run_method = "singularity"
    /\ rpc = "done"
    /\ rout.kind = "ConfigurationError"
    /\ DOMAIN cfgs = {}
    /\ log0 = NoLog

\* The call is not waiting for the child: it is before or after the drain,
\* or the stream it reads has a line or has ended.
CallCanStep ==
    \/ rpc \in {"start", "check_inp", "resolve", "build", "spawn", "open_log", "classify"}
    \/ rpc = "read_out" /\ (out_pipe # <<>> \/ child = "exited")
    \/ rpc = "read_err" /\ (err_pipe # <<>> \/ child = "exited")
    \/ rpc = "wait" /\ child = "exited"

\* The child is not waiting for the call: it is not in a write to a full pipe.
ChildCanStep ==
    child = "running" /\ (pending = NoWrite \/ Len(Pipe(pending.stream)) < PipeCap)

\* C2: the drain never leaves the child blocked for ever on a full pipe:
\* until the call has its outcome, the child or the call can take a step.
C2_DrainNeverStalls == rpc = "done" \/ CallCanStep \/ ChildCanStep

\* C3: a run that exits with code 0 and whose log contains "Simulation
\* stopped" is a ReportedFailure, and a run is Succeeded exactly when its exit
\* code is 0 and the log lacks that text.
C3_ReportedFailure ==
    rpc = "done" =>
        /\ (return_code.set /\ return_code.code = 0 /\ LogReports)
              => rout.kind = "ReportedFailure"
        /\ rout.kind = "Succeeded"
              <=> (return_code.set /\ return_code.code = 0 /\ ~LogReports)

C3_Witness ==
    /\ rpc = "done"
    /\ return_code = [set |-> TRUE, code |-> 0]
    /\ LogReports
    /\ rout.kind = "ReportedFailure"

\* C4: a nonzero exit code alone decides the outcome, on every backend and
\* whatever the log holds: 127 is BackendNotFound, any other nonzero code is
\* NonZeroExit with that code.
C4_NonzeroExitByCode ==
    (rpc = "done" /\ return_code.set /\ return_code.code # 0) =>
        IF return_code.code = 127
        THEN rout.kind = "BackendNotFound"
        ELSE rout.kind = "NonZeroExit" /\ rout.code = return_code.code

C4_Witness ==
    /\ rpc = "done"
    /\ run_method = "exe"
    /\ return_code = [set |-> TRUE, code |-> 127]
    /\ LogReports
    /\ rout.kind = "BackendNotFound"

\* C5 (as stated): after any call has returned, with whatever outcome, the
\* run log exists.
C5_Orig == rpc = "done" => log.present

\* C5 (amended): after a call that started the simulator has returned, with
\* whatever outcome, the run log exists; a call that fails before that
\* (ConfigurationError, NotFound, PlatformError, BackendUnavailableError and
\* the resolver's failures) leaves the log as it found it, absent if it was.
C5_LogAfterSpawn ==
    rpc = "done" =>
        /\ Spawned => log.present
        /\ ~Spawned => log = log0

C5_Witness ==
    /\ rpc = "done"
    /\ Spawned
    /\ log0 = NoLog
    /\ log.present
    /\ rout.kind = "NonZeroExit"

\* C9: on a container backend a probe that ends nonzero, or that cannot be
\* run at all, fails the call with BackendUnavailableError and the simulator
\* is not started; the probe is run once, before the simulator, and never for
\* the native backend.
C9_ProbeGuards ==
    /\ (run_method \in Containers /\ probe.state # "none"
            /\ (probe.state = "enoent" \/ probe.rc # 0))
          => /\ rout.kind = "BackendUnavailableError"
             /\ ~Spawned
    /\ (run_method \in Containers /\ rpc \in {"spawn", "open_log", "read_out",
                                               "read_err", "wait", "classify"})
          => Cardinality(ProbeAt) = 1
    /\ \A i \in ProbeAt : \A j \in 1..i : trace[j] # "spawn"
    /\ run_method = "exe" => ProbeAt = {}

\* The phases of a call: 0 Idle, 1 BackendSelected, 2 CommandBuilt, 3 Running,
\* 4 its terminal outcome.
Phase(pc) ==
    IF pc = "start" THEN 0
    ELSE IF pc \in {"check_inp", "resolve", "build"} THEN 1
    ELSE IF pc = "spawn" THEN 2
    ELSE IF pc = "done" THEN 4
    ELSE 3

Drained == child = "exited" /\ pending = NoWrite /\ out_pipe = <<>> /\ err_pipe = <<>>

\* C11: a call goes through Idle, BackendSelected, CommandBuilt and Running
\* to one terminal outcome in that order: each step stays in its phase, moves
\* to the next one or ends the call with a failure; the simulator is started
\* only from CommandBuilt, with a supported backend and a built command; the
\* outcome of a started run is set only once the child has exited and both
\* streams are drained; Succeeded is reached only from Running; the outcome is
\* set once and nothing changes after it.
C11_PhaseOrder ==
    [][ /\ rpc # "done"
        /\ \/ Phase(rpc') = Phase(rpc)
           \/ Phase(rpc') = Phase(rpc) + 1
           \/ rpc' = "done" /\ Phase(rpc) < 2 /\ rout'.kind \notin {"running", "Succeeded"}
        /\ child' # child /\ child = "none"
              => /\ Phase(rpc) = 2 /\ Phase(rpc') = 3
                 /\ run_method \in Supported
                 /\ cmd # <<>>
                 /\ popen'.cmd = cmd
        /\ rpc \in {"wait", "classify"} => Drained
        /\ rout' # rout => rout = Running /\ rpc' = "done"
        /\ rpc' = "done" => rout'.kind # "running"
      ]_vars

C11_Witness ==
    /\ rpc = "done"
    /\ Spawned
    /\ Drained
    /\ rout.kind = "Succeeded"
    /\ Len(emitted["out"]) = 1
    /\ Len(emitted["err"]) = 1

\* The lines of the log that were read from stream s, in the log's order.
RECURSIVE Tagged(_, _, _)
Tagged(lines, from, s) ==
    IF lines = <<>> THEN <<>>
    ELSE (IF Head(from) = s THEN <<Head(lines)>> ELSE <<>>)
            \o Tagged(Tail(lines), Tail(from), s)

LoggedFrom(s) == Tagged(log.lines, log.from, s)

\* C12: in a run that started the simulator, the log holds of each stream
\* exactly the lines the child has emitted on it and the call has read, once
\* each and in emission order (what it has not read yet is still in the pipe),
\* so that a returned call has logged every emitted line of both streams.
C12_EveryLineLoggedOnce ==
    Spawned =>
        /\ \A s \in Streams : LoggedFrom(s) \o Pipe(s) = emitted[s]
        /\ rpc = "done" =>
              /\ \A s \in Streams : LoggedFrom(s) = emitted[s]
              /\ Len(log.lines) = Len(emitted["out"]) + Len(emitted["err"])

C12_Witness ==
    /\ rpc = "done"
    /\ Spawned
    /\ emitted["out"] = <<"Info : running\n">>
    /\ emitted["err"] = <<"Simulation stopped\n">>
    /\ log.lines = <<"Info : running\n", "Simulation stopped\n">>

Opened == \E i \in 1..Len(trace) : trace[i] = "open sfincs_log.txt"
HoldsEarlierLines == \E i \in 1..Len(log.from) : log.from[i] = "earlier"

\* C13 as stated: after a call, whatever its outcome, the log holds no line
\* of an earlier run.
C13_Orig == rpc = "done" => ~HoldsEarlierLines

\* C13 (amended): the log is truncated when a call has started the simulator
\* and opens the log: from then on it holds only lines of this call, none of
\* an earlier run; a call that ends before that leaves the log, with the
\* earlier run's lines, as it found it.
C13_OverwrittenOnceStarted ==
    /\ Opened => /\ log.present
                 /\ ~HoldsEarlierLines
                 /\ \A i \in 1..Len(log.lines) :
                        \E s \in Streams : \E j \in 1..Len(emitted[s]) :
                            log.from[i] = s /\ log.lines[i] = emitted[s][j]
    /\ ~Opened => log = log0

C13_Witness ==
    /\ rpc = "done"
    /\ log0 = OldLog
    /\ Opened
    /\ log.lines = <<"Info : running\n">>
    /\ rout.kind = "Succeeded"

\* A marker line: dashes and nothing else, but for the blanks and the line end
\* around them.
DashMarker(line) ==
    \E i \in 1..Len(line) : \E j \in i..Len(line) :
        \A k \in 1..Len(line) :
            IF k \in i..j THEN SubSeq(line, k, k) = "-" ELSE IsSpace(SubSeq(line, k, k))

\* The position of the first marker line in a sequence of lines, 0 without one.
FirstMarker(lines) ==
    IF \E i \in 1..Len(lines) : DashMarker(lines[i])
    THEN CHOOSE i \in 1..Len(lines) :
            DashMarker(lines[i]) /\ \A j \in 1..(i - 1) : ~DashMarker(lines[j])
    ELSE 0

\* What the console shows of stream s, in the console's order.
RECURSIVE EchoedFrom(_, _)
EchoedFrom(shown, s) ==
    IF shown = <<>> THEN <<>>
    ELSE (IF Head(shown).from = s THEN <<Head(shown).text>> ELSE <<>>)
            \o EchoedFrom(Tail(shown), s)

AsEchoed(lines) == [i \in 1..Len(lines) |-> RStripNl(lines[i])]

\* C14: in a verbose run the console shows, of the stdout lines read so far,
\* none that came before the first marker line and every one from the marker
\* on, and it shows every stderr line read so far, each stream in emission
\* order; a run that is not verbose shows nothing.
C14_BannerFilter ==
    LET out == LoggedFrom("out")
        err == LoggedFrom("err")
        k == FirstMarker(out)
    IN  Opened =>
          IF verbose
          THEN /\ EchoedFrom(console, "out")
                     = IF k = 0 THEN <<>> ELSE AsEchoed(SubSeq(out, k, Len(out)))
               /\ EchoedFrom(console, "err") = AsEchoed(err)
               /\ print_log <=> k # 0
          ELSE console = <<>>

C14_Witness ==
    /\ rpc = "done"
    /\ verbose
    /\ emitted["out"] = <<"Info : running\n", " ---\n">>
    /\ console = <<[from |-> "out", text |-> " ---"]>>

RootRead == \E i \in 1..Len(trace) : trace[i] = "read sfincs.inp"

\* C15: the BaseRoot of a call is what get_sfincs_basemodel_root gives for the
\* config file the caller named, whatever that file is called: once the call
\* has resolved its roots it fails exactly when that resolution fails, and
\* otherwise holds that directory; a container command binds that directory to
\* the mount and has the mount joined with the path from it down to ModelRoot
\* as its working directory.
C15_BaseRootOfSuppliedConfig ==
    LET r == BasemodelRoot(TheInp)
    IN  /\ RootRead =>
              IF r.err # "none"
              THEN rout = Raised(r.err, "base_folder")
              ELSE base_folder = r.path /\ rout.at # "base_folder"
        /\ (run_method \in Containers /\ cmd # <<>>) =>
              /\ cmd[3] \in {"-v" \o PathStr(r.path) \o "://data",
                             "-B" \o PathStr(r.path) \o ":/data"}
              /\ cmd[5] = "/data/" \o PathStr(RelPath(model_root, r.path))

\* What follows the flag's two letters and the host directory in a bind
\* argument: the colon and the path inside the container.
BindTarget(arg, b) == SubSeq(arg, 3 + Len(PathStr(b)), Len(arg))
TheDockerCmd == DockerCmd(base_folder, model_root)
TheApptainerCmd == ApptainerCmd(base_folder, model_root)
ContainerCmdBuilt == run_method \in Containers /\ cmd # <<>>

\* C16 as stated: for the same roots and tag the two container commands have
\* the same run subcommand, in-container mount path, working-directory flag
\* and working-directory value.
C16_Orig ==
    ContainerCmdBuilt =>
        /\ TheDockerCmd[2] = TheApptainerCmd[2]
        /\ BindTarget(TheDockerCmd[3], base_folder)
              = BindTarget(TheApptainerCmd[3], base_folder)
        /\ TheDockerCmd[4] = TheApptainerCmd[4]
        /\ TheDockerCmd[5] = TheApptainerCmd[5]

\* C16 (amended): for the same roots and tag the two container commands have
\* the same run subcommand, bound host directory, working-directory value and
\* image name with tag; they differ in the engine, in the bind argument (-v
\* with ://data against -B with :/data), in the working-directory flag (-w
\* against --pwd) and in the docker:// scheme before the image.
C16_ContainerCommands ==
    ContainerCmdBuilt =>
        /\ cmd = IF run_method = "docker" THEN TheDockerCmd ELSE TheApptainerCmd
        /\ Len(TheDockerCmd) = 6 /\ Len(TheApptainerCmd) = 6
        /\ TheDockerCmd[1] = "docker" /\ TheApptainerCmd[1] = "apptainer"
        /\ TheDockerCmd[2] = "run" /\ TheApptainerCmd[2] = "run"
        /\ TheDockerCmd[3] = "-v" \o PathStr(base_folder) \o "://data"
        /\ TheApptainerCmd[3] = "-B" \o PathStr(base_folder) \o ":/data"
        /\ TheDockerCmd[4] = "-w" /\ TheApptainerCmd[4] = "--pwd"
        /\ TheDockerCmd[5] = TheApptainerCmd[5]
        /\ TheApptainerCmd[6] = "docker://" \o TheDockerCmd[6]

C16_Witness ==
    /\ run_method = "apptainer"
    /\ cmd # <<>>
    /\ cmd[4] = "--pwd"
    /\ cmd[5] = "/data/event1"

ExeLookedAt == \E i \in 1..Len(trace) : trace[i] = "is_file sfincs_exe"

\* C17: once a call with the native backend has come to its backend step,
\* a host other than Windows ends it with PlatformError without a look at the
\* executable, whether that exists or not; on Windows a missing executable
\* ends it with NotFound; neither starts a process; otherwise the command is
\* the executable's path alone and the process is started with it in
\* ModelRoot, the directory of the config.
C17_NativeBackend ==
    (run_method = "exe" /\ host # NoHost) =>
        /\ host.sys # "Windows" =>
              /\ rpc = "done"
              /\ rout = Raised("PlatformError", "sfincs_exe")
              /\ ~ExeLookedAt
              /\ ~Spawned /\ child = "none" /\ popen = NoPopen
        /\ (host.sys = "Windows" /\ ~host.exe_is_file) =>
              /\ rpc = "done"
              /\ rout = Raised("NotFound", "sfincs_exe")
              /\ ~Spawned /\ child = "none" /\ popen = NoPopen
        /\ (host.sys = "Windows" /\ host.exe_is_file) =>
              /\ cmd = <<SfincsExe>>
              /\ rout.kind \notin {"PlatformError", "NotFound"}
              /\ rpc # "spawn" =>
                    /\ Spawned
                    /\ popen = [cmd |-> <<SfincsExe>>,
                                cwd |-> Resolve(Parent(PathOf(inp)))]

C17_Witness ==
    /\ run_method = "exe"
    /\ host = [sys |-> "Linux", exe_is_file |-> TRUE]
    /\ rout.kind = "PlatformError"
    /\ rpc = "done"

\* C18: for every readable config get_sfincs_basemodel_root returns a
\* directory, and that directory is the config's own directory or one of its
\* ancestors, also when the config has more parent markers than its directory
\* has ancestors.
C18_RootIsAncestor ==
    (apc = "root_done" /\ TheCfg.err = "none") =>
        /\ root_res.err = "none"
        /\ Resolve(root_res.path).abs
        /\ IsPrefix(Resolve(root_res.path).parts, OwnDir.parts)

\* C19: verbose decides what the console shows and nothing else: the log and
\* the outcome of a run that started the simulator are determined by the
\* lines and the exit code of the child (and the backend's name in the
\* outcome), the same for a verbose run and one that is not: the log is the
\* stdout lines followed by the stderr lines, the outcome the classification
\* of the exit code and that text.
C19_VerboseOnlyConsole ==
    (rpc = "done" /\ Spawned) =>
        /\ log = [present |-> TRUE,
                  lines |-> emitted["out"] \o emitted["err"],
                  from |-> [i \in 1..Len(emitted["out"]) |-> "out"]
                             \o [i \in 1..Len(emitted["err"]) |-> "err"]]
        /\ rout = Classify(exit_code, Concat(emitted["out"] \o emitted["err"]))
        /\ ~verbose => console = <<>>

C19_Witness ==
    /\ rpc = "done"
    /\ Spawned
    /\ ~verbose
    /\ emitted["out"] = <<" ---\n", "Simulation stopped\n">>
    /\ log.lines = emitted["out"]
    /\ console = <<>>
    /\ rout.kind = "ReportedFailure"

\* ================================================ claims, FilesSpec (cont.)
\* C20 as stated: an archive call that fails for another reason than the
\* deletion of the stale destination leaves the destination as it found it.
C20_Orig ==
    (apc = "done" /\ aout.kind \notin {"ok", "ArchiveInUse"}) => zip = zip0

\* C20 (amended): only a call that fails with ArchiveInUse leaves the
\* destination as it found it.  A call that fails because the config is
\* missing or unparsable, or because the root cannot be resolved, has deleted
\* an archive it found and leaves none; a call that fails on a file outside
\* BaseRoot has deleted it too and leaves a new archive with the entries
\* written before that file, the config first.
C20_FailureEffects ==
    apc = "done" =>
        /\ aout.kind = "ArchiveInUse" => zip = zip0
        /\ aout.kind \in {"NotFound", "ParseError", "IndexError"} => zip = Absent
        /\ aout.kind = "ValueError" =>
              /\ zip.present
              /\ Len(zip.entries) = widx - 1
              /\ Len(zip.entries) >= 1
              /\ Len(zip.entries) < Len(files)
              /\ \A i \in 1..Len(zip.entries) : zip.entries[i].src = files[i]
              /\ zip.entries[1].src = TheInp
              /\ OldEntry \notin Range(zip.entries)
              /\ ArcName(files[widx], base).err = "ValueError"

C20_Witness ==
    /\ apc = "done"
    /\ aout.kind = "ValueError"
    /\ zip0.present
    /\ zip.present
    /\ Len(zip.entries) = 1
    /\ zip.entries[1].src = TheInp
====
